---- MODULE Spec2Model ----
(***************************************************************************)
(* Model of bin/fdc_lookup.py: the batch foundation-food lookup.           *)
(*                                                                         *)
(* stdin is a sequence of JSON tokens, stdout a sequence of JSON tokens;   *)
(* json.loads and json.dumps are computed on those token sequences.        *)
(* Python values are tagged records [t, v].  The external collaborator     *)
(* parse_ingredient is a nondeterministic choice, per call, among the      *)
(* outcomes in Behaviours (it raises an Exception, or it returns an object *)
(* of some shape).                                                         *)
(***************************************************************************)
EXTENDS Integers, Sequences, FiniteSets

\* ---------------------------------------------------------------- bounds
\* the longest list of product names on stdin
MaxLen == 2

\* ------------------------------------------------------- Python values
\* A value is a record with one field, named after its type.
PyStr(s) == [str |-> s]
PyInt(n) == [int |-> n]
PyNone == [none |-> 0]
PyList(s) == [list |-> s]
\* a dict is its sequence of <<key, value>> pairs, in insertion order
PyDict(pairs) == [dict |-> pairs]
\* a value the json encoder has no encoding for (Decimal, numpy scalar, ...)
Opaque == [obj |-> 0]
TypeOf(x) == CHOOSE k \in DOMAIN x : TRUE

\* ------------------------------------------------------------- tokens
\* A token is a record with one field, named after its kind.
Tok(k, s) == [f \in {k} |-> s]
Kind(tok) == CHOOSE k \in DOMAIN tok : TRUE
WS == Tok("ws", 0)
LBRACK == Tok("lbrack", 0)
RBRACK == Tok("rbrack", 0)
LBRACE == Tok("lbrace", 0)
RBRACE == Tok("rbrace", 0)
COMMA == Tok("comma", 0)
COLON == Tok("colon", 0)
NULL == Tok("null", 0)
STR(s) == Tok("str", s)
NUM(n) == Tok("num", n)

\* ------------------------------------------------------- str.strip()
\* variant: the text is taken as read
StripNothing(toks) == toks

RECURSIVE LStrip(_)
LStrip(toks) ==
    IF toks # <<>> /\ Head(toks) = WS THEN LStrip(Tail(toks)) ELSE toks

RECURSIVE RStrip(_)
RStrip(toks) ==
    IF toks # <<>> /\ toks[Len(toks)] = WS
    THEN RStrip(SubSeq(toks, 1, Len(toks) - 1))
    ELSE toks

Strip(toks) == RStrip(LStrip(toks))

\* ------------------------------------------------------- json.dumps
RECURSIVE Encodable(_)
Encodable(x) ==
    CASE TypeOf(x) = "list" -> \A i \in 1..Len(x.list) : Encodable(x.list[i])
      [] TypeOf(x) = "dict" -> \A i \in 1..Len(x.dict) : Encodable(x.dict[i][2])
      [] TypeOf(x) = "obj" -> FALSE
      [] OTHER -> TRUE

RECURSIVE Dumps(_)
RECURSIVE DumpsItems(_, _)
RECURSIVE DumpsPairs(_, _)
\* the items of a list from position i on, separated by ", "
DumpsItems(s, i) ==
    IF i > Len(s) THEN <<>>
    ELSE (IF i > 1 THEN <<COMMA, WS>> ELSE <<>>) \o Dumps(s[i]) \o DumpsItems(s, i + 1)

\* the members of a dict from position i on: key, ": ", value
DumpsPairs(s, i) ==
    IF i > Len(s) THEN <<>>
    ELSE (IF i > 1 THEN <<COMMA, WS>> ELSE <<>>)
         \o <<STR(s[i][1]), COLON, WS>> \o Dumps(s[i][2]) \o DumpsPairs(s, i + 1)

Dumps(x) ==
    CASE TypeOf(x) = "str" -> <<STR(x.str)>>
      [] TypeOf(x) = "int" -> <<NUM(x.int)>>
      [] TypeOf(x) = "none" -> <<NULL>>
      [] TypeOf(x) = "list" -> <<LBRACK>> \o DumpsItems(x.list, 1) \o <<RBRACK>>
      [] TypeOf(x) = "dict" -> <<LBRACE>> \o DumpsPairs(x.dict, 1) \o <<RBRACE>>

\* ------------------------------------------------------- json.loads
Ok(val, nxt) == [ok |-> TRUE, val |-> val, nxt |-> nxt]
Fail == [ok |-> FALSE, val |-> PyNone, nxt |-> 0]

RECURSIVE SkipWs(_, _)
SkipWs(toks, i) ==
    IF i <= Len(toks) /\ toks[i] = WS THEN SkipWs(toks, i + 1) ELSE i

\* dict assignment: a repeated key keeps its position and takes the new value
SetKey(pairs, key, val) ==
    IF \E i \in 1..Len(pairs) : pairs[i][1] = key
    THEN [i \in 1..Len(pairs) |-> IF pairs[i][1] = key THEN <<key, val>> ELSE pairs[i]]
    ELSE Append(pairs, <<key, val>>)

RECURSIVE ParseValue(_, _)
RECURSIVE ParseElems(_, _, _)
RECURSIVE ParseMembers(_, _, _)
\* the elements of an array; i is just past "[" (acc empty) or just past ","
ParseElems(toks, i, acc) ==
    LET r == ParseValue(toks, i) IN
    IF ~r.ok THEN Fail
    ELSE LET k == SkipWs(toks, r.nxt) IN
         IF k > Len(toks) THEN Fail
         ELSE IF toks[k] = COMMA THEN ParseElems(toks, k + 1, Append(acc, r.val))
         ELSE IF toks[k] = RBRACK THEN Ok(PyList(Append(acc, r.val)), k + 1)
         ELSE Fail

\* the members of an object; i is just past "{" (acc empty) or just past ","
ParseMembers(toks, i, acc) ==
    LET j == SkipWs(toks, i) IN
    IF j > Len(toks) \/ Kind(toks[j]) # "str" THEN Fail
    ELSE LET c == SkipWs(toks, j + 1) IN
         IF c > Len(toks) \/ toks[c] # COLON THEN Fail
         ELSE LET r == ParseValue(toks, c + 1) IN
              IF ~r.ok THEN Fail
              ELSE LET k == SkipWs(toks, r.nxt) IN
                   IF k > Len(toks) THEN Fail
                   ELSE IF toks[k] = COMMA
                        THEN ParseMembers(toks, k + 1, SetKey(acc, toks[j].str, r.val))
                   ELSE IF toks[k] = RBRACE
                        THEN Ok(PyDict(SetKey(acc, toks[j].str, r.val)), k + 1)
                   ELSE Fail

ParseValue(toks, i) ==
    LET j == SkipWs(toks, i) IN
    IF j > Len(toks) THEN Fail
    ELSE CASE Kind(toks[j]) = "str" -> Ok(PyStr(toks[j].str), j + 1)
           [] Kind(toks[j]) = "num" -> Ok(PyInt(toks[j].num), j + 1)
           [] Kind(toks[j]) = "null" -> Ok(PyNone, j + 1)
           [] Kind(toks[j]) = "lbrack" ->
                LET e == SkipWs(toks, j + 1) IN
                IF e <= Len(toks) /\ toks[e] = RBRACK THEN Ok(PyList(<<>>), e + 1)
                ELSE ParseElems(toks, j + 1, <<>>)
           [] Kind(toks[j]) = "lbrace" ->
                LET e == SkipWs(toks, j + 1) IN
                IF e <= Len(toks) /\ toks[e] = RBRACE THEN Ok(PyDict(<<>>), e + 1)
                ELSE ParseMembers(toks, j + 1, <<>>)
           [] OTHER -> Fail

\* json.loads raises on unparseable text and on text after the value
Loads(toks) ==
    LET r == ParseValue(toks, 1) IN
    IF r.ok /\ SkipWs(toks, r.nxt) > Len(toks) THEN r ELSE Fail

\* iteration over a str yields its characters
Chars(s) ==
    CASE s = "ox" -> <<"o", "x">>
      [] s = "yam" -> <<"y", "a", "m">>
      [] OTHER -> <<s>>

\* ------------------------------------------------------------ inputs
Names == {"ox", "yam"}

RECURSIVE SeqsUpTo(_, _)
SeqsUpTo(S, n) ==
    IF n = 0 THEN {<<>>}
    ELSE LET shorter == SeqsUpTo(S, n - 1) IN
         shorter \cup {Append(q, e) : q \in shorter, e \in S}

NameLists == SeqsUpTo(Names, MaxLen)

\* the encoding of a list of product names, as a caller would produce it
EncodeNames(q) == Dumps(PyList([i \in 1..Len(q) |-> PyStr(q[i])]))

ValidStreams ==
    {EncodeNames(q) : q \in NameLists}
    \cup {<<WS>> \o EncodeNames(q) \o <<WS>> : q \in {l \in NameLists : Len(l) <= 1}}

EmptyStreams == {<<>>, <<WS>>, <<WS, WS>>}

MalformedStreams ==
    { <<LBRACK, STR("ox")>>,
      <<LBRACK, STR("ox"), COMMA, RBRACK>>,
      <<LBRACK, RBRACK, WS, LBRACK, RBRACK>>,
      <<RBRACK>>,
      <<LBRACE, STR("ox"), COLON, WS, NUM(7), RBRACE>>,
      <<LBRACE, STR("ox"), COLON, NUM(7), COMMA, STR("yam"), COLON, NULL, RBRACE>>,
      <<LBRACE, RBRACE>>,
      <<STR("ox")>>,
      <<NUM(7)>>,
      <<NULL>>,
      <<LBRACK, NUM(7), RBRACK>>,
      <<LBRACK, STR("ox"), COMMA, WS, NULL, RBRACK>>,
      <<LBRACK, LBRACK, STR("ox"), RBRACK, RBRACK>> }

Streams == ValidStreams \cup EmptyStreams \cup MalformedStreams

\* --------------------------------------------- the external collaborator
Fields == <<"fdc_id", "text", "category", "confidence", "data_type">>

\* foundation-food objects the collaborator may hand back
FFHigh ==
    [fdc_id |-> PyInt(1), text |-> PyStr("ox"), category |-> PyStr("meat"),
     confidence |-> PyInt(9), data_type |-> PyStr("foundation")]
\* a null category, and an attribute the resolver does not read
FFLow ==
    [fdc_id |-> PyInt(2), text |-> PyStr("yam"), category |-> PyNone,
     confidence |-> PyInt(3), data_type |-> PyStr("survey"), name |-> PyStr("yam")]
\* an object of an unexpected shape: no data_type attribute
FFShort ==
    [fdc_id |-> PyInt(3), text |-> PyStr("ox"), category |-> PyStr("meat"),
     confidence |-> PyInt(5)]
\* a confidence the json encoder cannot encode
FFOpaque ==
    [fdc_id |-> PyInt(4), text |-> PyStr("ox"), category |-> PyStr("meat"),
     confidence |-> Opaque, data_type |-> PyStr("foundation")]

FoundationFoodLists ==
    { <<>>, <<FFHigh>>, <<FFLow, FFHigh>>, <<FFHigh, FFHigh>>, <<FFHigh, FFLow>>,
      <<FFHigh, FFShort>>, <<FFShort, FFHigh>>, <<FFOpaque>>, <<FFHigh, FFOpaque>> }

\* what one call of parse_ingredient does: raises an Exception, returns an
\* object without foundation_foods, or returns one with a list of matches
\* (KeyboardInterrupt and SystemExit are not Exceptions and are not outcomes
\* of the collaborator; "except Exception" would let them through)
Raises == [kind |-> "raise", ffs |-> <<>>]
NoAttr == [kind |-> "noattr", ffs |-> <<>>]
Returns(ffs) == [kind |-> "ok", ffs |-> ffs]
Returned == {NoAttr} \cup {Returns(ffs) : ffs \in FoundationFoodLists}
Behaviours == {Raises} \cup Returned

\* ------------------------------------------------ lookup_foundation_foods
HasFields(ff) == \A i \in 1..Len(Fields) : Fields[i] \in DOMAIN ff

\* variant: a field whose value is None is left out
ToDictSkipNull(ff) ==
    PyDict(SelectSeq([i \in 1..Len(Fields) |-> <<Fields[i], ff[Fields[i]]>>],
                     LAMBDA pr : pr[2] # PyNone))

\* the dict built for one foundation food
ToDict(ff) == PyDict([i \in 1..Len(Fields) |-> <<Fields[i], ff[Fields[i]]>>])

\* variant: a match already in the list is not added again
AddMatchOnce(acc, d) ==
    IF \E i \in 1..Len(acc) : acc[i] = d THEN acc ELSE Append(acc, d)

\* the comprehension adds each converted match at the end
AddMatch(acc, d) == Append(acc, d)

\* variant: the handler returns None
OnExceptionNone(acc) == PyNone

\* variant: the handler returns what was converted before the error
OnExceptionPartial(acc) == PyList(acc)

\* except Exception: return [] -- whatever was converted so far is dropped
OnException(acc) == PyList(<<>>)

\* ------------------------------------------------------------- main
\* print writes the text and a newline
PrintLine(text) == text \o <<WS>>

\* the literal "[]" printed for an empty stream
EmptyListText == <<LBRACK, RBRACK>>

IsIterable(v) == TypeOf(v) \in {"list", "dict", "str"}

\* what "for name in products" yields: the elements of a list, the keys of a
\* dict, the characters of a str
Items(v) ==
    CASE TypeOf(v) = "list" -> v.list
      [] TypeOf(v) = "dict" -> [i \in 1..Len(v.dict) |-> PyStr(v.dict[i][1])]
      [] TypeOf(v) = "str" -> [i \in 1..Len(Chars(v.str)) |-> PyStr(Chars(v.str)[i])]
      [] OTHER -> <<>>

\* variant: the newest result goes first
CollectFirst(res, r) == <<r>> \o res

\* the outer comprehension adds each item's result at the end
Collect(res, r) == Append(res, r)

VARIABLES
    stdin,      \* the input stream, as tokens
    pc,         \* where the process is
    raw,        \* sys.stdin.read().strip()
    products,   \* json.loads(raw)
    idx,        \* how many items the outer comprehension has taken
    name,       \* the item being looked up
    parsed,     \* what parse_ingredient returned for it
    ffi,        \* how many foundation foods the inner comprehension has taken
    acc,        \* the inner comprehension's list so far
    results,    \* the outer comprehension's list so far
    stdout,     \* what has been printed, as tokens
    exitCode,   \* -1 while running, then the exit status
    calls,      \* history: the argument of every parse_ingredient call, as started
    outcomes    \* history: the outcome of every parse_ingredient call, as finished

vars == <<stdin, pc, raw, products, idx, name, parsed, ffi, acc, results, stdout,
          exitCode, calls, outcomes>>

Init ==
    /\ stdin \in Streams
    /\ pc = "start"
    /\ raw = <<>>
    /\ products = PyNone
    /\ idx = 0
    /\ name = PyNone
    /\ parsed = NoAttr
    /\ ffi = 0
    /\ acc = <<>>
    /\ results = <<>>
    /\ stdout = <<>>
    /\ exitCode = -1
    /\ calls = <<>>
    /\ outcomes = <<>>

\* lines 40-43: read and strip; an empty stream prints "[]" and returns
ReadInput ==
    /\ pc = "start"
    /\ raw' = Strip(stdin)
    /\ IF raw' = <<>>
       THEN /\ stdout' = PrintLine(EmptyListText)
            /\ exitCode' = 0
            /\ pc' = "done"
       ELSE /\ pc' = "decode"
            /\ UNCHANGED <<stdout, exitCode>>
    /\ UNCHANGED <<stdin, products, idx, name, parsed, ffi, acc, results, calls, outcomes>>

\* line 45: json.loads(raw)
Decode ==
    /\ pc = "decode"
    /\ Loads(raw).ok
    /\ products' = Loads(raw).val
    /\ pc' = "iter"
    /\ UNCHANGED <<stdin, raw, idx, name, parsed, ffi, acc, results, stdout, exitCode,
                   calls, outcomes>>

\* line 45: json.loads raises JSONDecodeError, which nothing catches
DecodeFails ==
    /\ pc = "decode"
    /\ ~Loads(raw).ok
    /\ pc' = "done"
    /\ exitCode' = 1
    /\ UNCHANGED <<stdin, raw, products, idx, name, parsed, ffi, acc, results, stdout,
                   calls, outcomes>>

\* line 46: iterating a number or None raises TypeError, which nothing catches
NotIterable ==
    /\ pc = "iter"
    /\ ~IsIterable(products)
    /\ pc' = "done"
    /\ exitCode' = 1
    /\ UNCHANGED <<stdin, raw, products, idx, name, parsed, ffi, acc, results, stdout,
                   calls, outcomes>>

\* line 46: the comprehension takes the next item
NextItem ==
    /\ pc = "iter"
    /\ IsIterable(products)
    /\ idx < Len(Items(products))
    /\ name' = Items(products)[idx + 1]
    /\ idx' = idx + 1
    /\ pc' = "call"
    /\ UNCHANGED <<stdin, raw, products, parsed, ffi, acc, results, stdout, exitCode,
                   calls, outcomes>>

\* line 46: no item is left
ItemsExhausted ==
    /\ pc = "iter"
    /\ IsIterable(products)
    /\ idx = Len(Items(products))
    /\ pc' = "emit"
    /\ UNCHANGED <<stdin, raw, products, idx, name, parsed, ffi, acc, results, stdout,
                   exitCode, calls, outcomes>>

\* line 24: parse_ingredient(product_name, ...) is entered
CallCollaborator ==
    /\ pc = "call"
    /\ calls' = Append(calls, name)
    /\ pc' = "wait"
    /\ UNCHANGED <<stdin, raw, products, idx, name, parsed, ffi, acc, results, stdout,
                   exitCode, outcomes>>

\* variant: a call that raised is made again
RetryOnRaise ==
    /\ pc = "wait"
    /\ outcomes' = Append(outcomes, Raises)
    /\ pc' = "call"
    /\ UNCHANGED <<stdin, raw, products, idx, name, parsed, ffi, acc, results, stdout,
                   exitCode, calls>>

\* variant: no handler, the exception ends the process
AbortOnRaise ==
    /\ pc = "wait"
    /\ outcomes' = Append(outcomes, Raises)
    /\ exitCode' = 1
    /\ pc' = "done"
    /\ UNCHANGED <<stdin, raw, products, idx, name, parsed, ffi, acc, results, stdout,
                   calls>>

\* lines 24, 35-36: the call raises; the item's result is []
CollaboratorRaises ==
    /\ pc = "wait"
    /\ outcomes' = Append(outcomes, Raises)
    /\ results' = Collect(results, OnException(<<>>))
    /\ name' = PyNone
    /\ pc' = "iter"
    /\ UNCHANGED <<stdin, raw, products, idx, parsed, ffi, acc, stdout, exitCode, calls>>

\* line 24: the call returns an object
CollaboratorReturns ==
    /\ pc = "wait"
    /\ \E b \in Returned :
        /\ outcomes' = Append(outcomes, b)
        /\ parsed' = b
    /\ ffi' = 0
    /\ acc' = <<>>
    /\ pc' = "convert"
    /\ UNCHANGED <<stdin, raw, products, idx, name, results, stdout, exitCode, calls>>

\* lines 33, 35-36: parsed has no foundation_foods attribute
NoFoundationFoods ==
    /\ pc = "convert"
    /\ parsed.kind = "noattr"
    /\ results' = Collect(results, OnException(acc))
    /\ name' = PyNone
    /\ parsed' = NoAttr
    /\ ffi' = 0
    /\ acc' = <<>>
    /\ pc' = "iter"
    /\ UNCHANGED <<stdin, raw, products, idx, stdout, exitCode, calls, outcomes>>

\* lines 25-34: one foundation food becomes a dict
ConvertMatch ==
    /\ pc = "convert"
    /\ parsed.kind = "ok"
    /\ ffi < Len(parsed.ffs)
    /\ HasFields(parsed.ffs[ffi + 1])
    /\ acc' = AddMatch(acc, ToDict(parsed.ffs[ffi + 1]))
    /\ ffi' = ffi + 1
    /\ UNCHANGED <<stdin, pc, raw, products, idx, name, parsed, results, stdout,
                   exitCode, calls, outcomes>>

\* lines 27-31, 35-36: an attribute is missing; the item's result is []
ConvertFails ==
    /\ pc = "convert"
    /\ parsed.kind = "ok"
    /\ ffi < Len(parsed.ffs)
    /\ ~HasFields(parsed.ffs[ffi + 1])
    /\ results' = Collect(results, OnException(acc))
    /\ name' = PyNone
    /\ parsed' = NoAttr
    /\ ffi' = 0
    /\ acc' = <<>>
    /\ pc' = "iter"
    /\ UNCHANGED <<stdin, raw, products, idx, stdout, exitCode, calls, outcomes>>

\* lines 25-34: every foundation food is converted; the list is returned
ReturnMatches ==
    /\ pc = "convert"
    /\ parsed.kind = "ok"
    /\ ffi = Len(parsed.ffs)
    /\ results' = Collect(results, PyList(acc))
    /\ name' = PyNone
    /\ parsed' = NoAttr
    /\ ffi' = 0
    /\ acc' = <<>>
    /\ pc' = "iter"
    /\ UNCHANGED <<stdin, raw, products, idx, stdout, exitCode, calls, outcomes>>

\* line 47: print(json.dumps(results))
Emit ==
    /\ pc = "emit"
    /\ Encodable(PyList(results))
    /\ stdout' = PrintLine(Dumps(PyList(results)))
    /\ exitCode' = 0
    /\ pc' = "done"
    /\ UNCHANGED <<stdin, raw, products, idx, name, parsed, ffi, acc, results, calls,
                   outcomes>>

\* line 47: json.dumps raises TypeError, which nothing catches
EmitFails ==
    /\ pc = "emit"
    /\ ~Encodable(PyList(results))
    /\ exitCode' = 1
    /\ pc' = "done"
    /\ UNCHANGED <<stdin, raw, products, idx, name, parsed, ffi, acc, results, stdout,
                   calls, outcomes>>

Next ==
    \/ ReadInput
    \/ Decode
    \/ DecodeFails
    \/ NotIterable
    \/ NextItem
    \/ ItemsExhausted
    \/ CallCollaborator
    \/ CollaboratorRaises
    \/ CollaboratorReturns
    \/ NoFoundationFoods
    \/ ConvertMatch
    \/ ConvertFails
    \/ ReturnMatches
    \/ Emit
    \/ EmitFails

Spec == Init /\ [][Next]_vars

\* =================================================================
\* Properties
\* =================================================================
Done == pc = "done"
Emitted == stdout # <<>>

\* the stream holds nothing but whitespace
Blank == \A i \in 1..Len(stdin) : stdin[i] = WS
\* the value the stream encodes (whitespace around it does not count)
Decoded == Loads(stdin)
IsNameList(v) ==
    /\ TypeOf(v) = "list"
    /\ \A i \in 1..Len(v.list) : TypeOf(v.list[i]) = "str"
\* the stream encodes a list of strings
ValidInput == ~Blank /\ Decoded.ok /\ IsNameList(Decoded.val)
Input == Decoded.val.list
N == Len(Input)

\* stdout, decoded as a consumer would
Output == Loads(stdout).val
IsListOfLists(v) ==
    /\ TypeOf(v) = "list"
    /\ \A i \in 1..Len(v.list) : TypeOf(v.list[i]) = "list"

\* the five-field object for one foundation food
MatchObject(ff) ==
    PyDict(<< <<"fdc_id", ff.fdc_id>>, <<"text", ff.text>>, <<"category", ff.category>>,
              <<"confidence", ff.confidence>>, <<"data_type", ff.data_type>> >>)
FiveFields == {"fdc_id", "text", "category", "confidence", "data_type"}
\* the collaborator returned matches that all carry the five attributes
WellShaped(b) ==
    /\ b.kind = "ok"
    /\ \A j \in 1..Len(b.ffs) : FiveFields \subseteq DOMAIN b.ffs[j]
\* ... and every value of which json can encode
WellFormed(b) ==
    /\ WellShaped(b)
    /\ \A j \in 1..Len(b.ffs) : \A f \in FiveFields : b.ffs[j][f] # Opaque
AllMatches(b) == PyList([j \in 1..Len(b.ffs) |-> MatchObject(b.ffs[j])])
\* the result an item must get for one outcome of the collaborator
Expected(b) == IF WellShaped(b) THEN AllMatches(b) ELSE PyList(<<>>)

\* C1: for an input that decodes to a list of N names, an emitted output decodes
\* to a list of exactly N elements, each of them a list; and when every call
\* either raised or returned well-formed matches, the output is emitted.
C1_LengthInvariant ==
    (Done /\ ValidInput) =>
        /\ Emitted =>
            /\ Loads(stdout).ok
            /\ IsListOfLists(Output)
            /\ Len(Output.list) = N
        /\ (\A i \in 1..Len(outcomes) : outcomes[i] = Raises \/ WellFormed(outcomes[i]))
              => Emitted

C1_Witness ==
    /\ Done /\ ValidInput /\ Emitted
    /\ N = 2
    /\ outcomes[1] = Raises
    /\ outcomes[2] = Returns(<<FFHigh>>)
    /\ Len(Output.list) = 2

\* C2: output[i] is the result of looking up input[i]: the i-th call was given
\* input[i], and output[i] is the result for that call's outcome; so with a
\* collaborator that answers by text alone, equal names get equal results and
\* the output follows any reordering of the input.
C2_OrderPreserved ==
    (Done /\ ValidInput /\ Emitted) =>
        /\ Len(Output.list) = N
        /\ \A i \in 1..N :
            /\ calls[i] = Input[i]
            /\ Output.list[i] = Expected(outcomes[i])

C2_Witness ==
    /\ Done /\ ValidInput /\ Emitted
    /\ N = 2
    /\ Input[1] # Input[2]
    /\ Output.list[1] # Output.list[2]
    /\ Output.list[1] = Expected(outcomes[1])

\* C3: when the collaborator raises for item k and returns well-formed matches
\* for every other item, the run completes with status 0, output[k] is the
\* empty list and every other output[j] is the full result of its own call.
C3_FailureIsolated ==
    (Done /\ ValidInput) =>
        \A k \in 1..Len(outcomes) :
            (/\ outcomes[k] = Raises
             /\ \A j \in 1..Len(outcomes) : j # k => WellFormed(outcomes[j]))
            => /\ exitCode = 0
               /\ Emitted
               /\ Len(Output.list) = N
               /\ Output.list[k] = PyList(<<>>)
               /\ \A j \in 1..N : j # k => Output.list[j] = AllMatches(outcomes[j])

C3_Witness ==
    /\ Done /\ ValidInput /\ Emitted
    /\ N = 2
    /\ outcomes[1] = Raises
    /\ outcomes[2] = Returns(<<FFLow, FFHigh>>)
    /\ Output.list[1] = PyList(<<>>)
    /\ Len(Output.list[2].list) = 2

\* C4: a non-empty stream that is not an encoding of a list of strings makes
\* the run fail, with no lookup made and nothing printed.
C4_FatalInputRejected ==
    (~Blank /\ ~ValidInput) =>
        /\ calls = <<>>
        /\ stdout = <<>>
        /\ Done => exitCode = 1

\* C5: for a list of strings on stdin, whatever the collaborator does, the run
\* ends with status 0 and prints a full-length list of lists.
C5_AlwaysSucceeds ==
    (Done /\ ValidInput) =>
        /\ exitCode = 0
        /\ Emitted
        /\ Loads(stdout).ok
        /\ IsListOfLists(Output)
        /\ Len(Output.list) = N

\* C6: for a list of N names the collaborator is called N times in all, the
\* i-th call with input[i], in input order, each call finished before the next
\* starts, and none repeated after it raised.
C6_InvocationDiscipline ==
    /\ Len(calls) - Len(outcomes) \in {0, 1}
    /\ ValidInput =>
        /\ Len(calls) <= N
        /\ \A i \in 1..Len(calls) : calls[i] = Input[i]
        /\ Done => (Len(calls) = N /\ Len(outcomes) = N)

C6_Witness ==
    /\ Done /\ ValidInput
    /\ N = 2
    /\ Input[1] = Input[2]
    /\ outcomes[1] = Raises
    /\ Len(calls) = 2

\* C7: an empty or whitespace-only stream, or the encoding of the empty list,
\* makes no lookup, prints exactly [] and ends with status 0.
C7_EmptyInput ==
    (Blank \/ (Decoded.ok /\ Decoded.val = PyList(<<>>))) =>
        /\ calls = <<>>
        /\ Done => (stdout = <<LBRACK, RBRACK, WS>> /\ exitCode = 0)

C7_Witness ==
    /\ Done
    /\ stdin = <<WS, WS>>
    /\ stdout = <<LBRACK, RBRACK, WS>>

\* C8: every match object of an emitted output carries the five fields
\* fdc_id, text, category, confidence and data_type, each once and no other,
\* also when a value is null.
C8_FieldCompleteness ==
    (Done /\ Emitted) =>
        /\ Loads(stdout).ok
        /\ IsListOfLists(Output)
        /\ \A i \in 1..Len(Output.list) :
             \A j \in 1..Len(Output.list[i].list) :
                LET m == Output.list[i].list[j] IN
                /\ TypeOf(m) = "dict"
                /\ Len(m.dict) = 5
                /\ {m.dict[f][1] : f \in 1..Len(m.dict)} = FiveFields

C8_Witness ==
    /\ Done /\ Emitted
    /\ \E i \in 1..Len(Output.list) :
         \E j \in 1..Len(Output.list[i].list) :
            <<"category", PyNone>> \in
                {Output.list[i].list[j].dict[f] : f \in 1..Len(Output.list[i].list[j].dict)}

C10_AllOrNothing ==
    /\ Len(results) <= Len(outcomes)
    /\ \A i \in 1..Len(results) : results[i] = Expected(outcomes[i])
    /\ (Done /\ Emitted /\ Len(outcomes) > 0) =>
          \A i \in 1..Len(outcomes) : Output.list[i] = Expected(outcomes[i])

C10_Witness ==
    /\ Done /\ Emitted
    /\ Len(outcomes) = 2
    /\ outcomes[1] = Returns(<<FFHigh, FFShort>>)
    /\ outcomes[2] = Returns(<<FFHigh>>)
    /\ Output.list[1] = PyList(<<>>)
====
